---- MODULE Spec2Model ----
(***************************************************************************)
(* A model of src/mediatools.py: the ffmpeg argument builder               *)
(* (Preset.build_ffmpeg_params), the file list and its datetime sort       *)
(* (FileList), the mediainfo report parser (MediaTools.get_meta) and the   *)
(* process runner with its progress loop (MediaTools.do_concatenation).    *)
(*                                                                         *)
(* Text is a sequence of pieces (one-character strings and literal         *)
(* fragments of the source), so that joining, replacing and formatting     *)
(* are computed.  Python's None is the empty tuple and a present value v   *)
(* is the one-element tuple <<v>>.                                         *)
(***************************************************************************)
EXTENDS Integers, Sequences, FiniteSets, TLC

VARIABLES
    \* Preset.build_ffmpeg_params and the interpreter's atexit table
    interp, disk, registered, created, args, lastPreset, lastFiles, builds,
    \* FileList
    paths, meta, warnings, lastOp,
    \* MediaTools.get_meta
    mpc, report, idx, info,
    \* MediaTools.do_concatenation
    pc, logfile_path, f, proc, pending, written, line, test, prev_line,
    console, iter, diagnostics

buildVars == <<interp, disk, registered, created, args, lastPreset, lastFiles, builds>>
listVars == <<paths, meta, warnings, lastOp>>
metaVars == <<mpc, report, idx, info>>
concatVars == <<pc, logfile_path, f, proc, pending, written, line, test, prev_line, console, iter, diagnostics>>
vars == <<buildVars, listVars, metaVars, concatVars>>

\* Python's None, and a value that is present.
None == <<>>
Some(v) == <<v>>

Range(s) == {s[i] : i \in 1..Len(s)}

\* Bounds of the model.
MaxInputs == 2
MaxBuilds == 2
MaxFiles == 3
MaxReport == 2
MaxLog == 2
MaxTrail == 1
MaxCode == 1

----------------------------------------------------------------------------
\* Text helpers: str.join, str.replace.

RECURSIVE Join(_, _)
Join(texts, sep) ==
    IF texts = <<>> THEN <<>>
    ELSE IF Len(texts) = 1 THEN texts[1]
    ELSE texts[1] \o <<sep>> \o Join(Tail(texts), sep)

Replace(text, old, new) == [i \in 1..Len(text) |-> IF text[i] = old THEN new ELSE text[i]]

----------------------------------------------------------------------------
\* ConcatStrategy, Preset, encode_presets.

ConcatStrategy == {"CONCAT_PROTOCOL", "CONCAT_FILTER", "CONCAT_DEMUX"}

X265Params == << <<"-c:v">>, <<"libx265">>, <<"-crf">>, <<"28">>, <<"-preset">>, <<"medium">>, <<"-c:a">>, <<"flac">> >>

encode_presets ==
    [copy   |-> [ffmpeg_params |-> << <<"-c">>, <<"copy">> >>, complex_filters |-> <<>>,
                 concat_strategy |-> "CONCAT_DEMUX"],
     copydv |-> [ffmpeg_params |-> << <<"-c">>, <<"copy">> >>, complex_filters |-> <<>>,
                 concat_strategy |-> "CONCAT_PROTOCOL"],
     p1080  |-> [ffmpeg_params |-> X265Params, complex_filters |-> << <<"scale=-1:1080">> >>,
                 concat_strategy |-> "CONCAT_FILTER"],
     p4k    |-> [ffmpeg_params |-> X265Params, complex_filters |-> << <<"scale=-1:2160">> >>,
                 concat_strategy |-> "CONCAT_FILTER"]]

PresetNames == DOMAIN encode_presets

\* The input paths of the model: one plain, one with a backslash.
InputPaths == { <<"a">>, <<"d", "\\", "b">> }

InputLists == UNION {[1..n -> InputPaths] : n \in 0..MaxInputs}

----------------------------------------------------------------------------
\* Preset.build_ffmpeg_params

\* CONCAT_PROTOCOL: one -i whose value joins the inputs with '|'.
RECURSIVE ConcatProtocolArgsEach(_)
ConcatProtocolArgsEach(input_files) ==
    IF input_files = <<>> THEN <<>>
    ELSE << <<"-i">>, <<"concat:">> \o Head(input_files) >> \o ConcatProtocolArgsEach(Tail(input_files))

ConcatProtocolArgs(input_files) ==
    << <<"-i">>, <<"concat:">> \o Join(input_files, "|") >>

\* CONCAT_FILTER: [a for b in [["-i", f] for f in input_files] for a in b]
RECURSIVE FilterInputArgs(_)
FilterInputArgs(input_files) ==
    IF input_files = <<>> THEN <<>>
    ELSE << <<"-i">>, Head(input_files) >> \o FilterInputArgs(Tail(input_files))

FilterGraph(n, complex_filters) ==
    <<"concat=n=", ToString(n), ":v=1:a=1[catv][outa];[catv]">>
        \o Join(complex_filters, ",") \o <<"[outv]">>

ConcatFilterArgs(input_files, complex_filters) ==
    FilterInputArgs(input_files)
        \o << <<"-filter_complex">>, FilterGraph(Len(input_files), complex_filters) >>
        \o << <<"-map">>, <<"[outv]">>, <<"-map">>, <<"[outa]">> >>

\* CONCAT_DEMUX: tempfile.mkstemp creates a file under a name no file has
\* (one name for each build the model allows, so that a free one remains).
TempNames == 1..MaxBuilds
TempPath(t) == <<"/tmp/tmp", ToString(t)>>

Mkstemp(files) == TempNames \ DOMAIN files

ManifestLine(input_file) ==
    <<"file 'file:">> \o Replace(input_file, "\\", "/") \o <<"'">>

ManifestLines(input_files) == [i \in 1..Len(input_files) |-> ManifestLine(input_files[i])]

ConcatDemuxArgs(tempfile_path) ==
    << <<"-f">>, <<"concat">>, <<"-safe">>, <<"0">>, <<"-i">>, tempfile_path >>

\* The files left once every registered atexit handler has run os.unlink.
AtexitUnlinkLast(files, handlers) ==
    IF handlers = <<>> THEN files
    ELSE [t \in DOMAIN files \ {handlers[Len(handlers)]} |-> files[t]]

AtexitUnlink(files, handlers) ==
    [t \in DOMAIN files \ Range(handlers) |-> files[t]]

build_ffmpeg_params(name, input_files) ==
    LET self == encode_presets[name] IN
    /\ interp = "running"
    /\ builds < MaxBuilds
    /\ builds' = builds + 1
    /\ lastPreset' = name
    /\ lastFiles' = input_files
    /\ \/ /\ self.concat_strategy = "CONCAT_PROTOCOL"
          /\ args' = ConcatProtocolArgs(input_files) \o self.ffmpeg_params
          /\ UNCHANGED <<disk, registered, created>>
       \/ /\ self.concat_strategy = "CONCAT_FILTER"
          /\ args' = ConcatFilterArgs(input_files, self.complex_filters) \o self.ffmpeg_params
          /\ UNCHANGED <<disk, registered, created>>
       \/ /\ self.concat_strategy = "CONCAT_DEMUX"
          /\ \E t \in Mkstemp(disk) :
                /\ disk' = (t :> ManifestLines(input_files)) @@ disk
                /\ registered' = Append(registered, t)
                /\ created' = Append(created, t)
                /\ args' = ConcatDemuxArgs(TempPath(t)) \o self.ffmpeg_params
    /\ UNCHANGED interp

Build ==
    /\ \E name \in PresetNames, input_files \in InputLists : build_ffmpeg_params(name, input_files)
    /\ UNCHANGED <<listVars, metaVars, concatVars>>

\* The interpreter exits normally: the atexit handlers run.
InterpreterExit ==
    /\ interp = "running"
    /\ interp' = "exited"
    /\ disk' = AtexitUnlink(disk, registered)
    /\ UNCHANGED <<registered, created, args, lastPreset, lastFiles, builds>>
    /\ UNCHANGED <<listVars, metaVars, concatVars>>

\* The interpreter is killed by a signal it does not handle, or leaves by
\* os._exit: no atexit handler runs.
InterpreterKilled ==
    /\ interp = "running"
    /\ interp' = "killed"
    /\ UNCHANGED <<disk, registered, created, args, lastPreset, lastFiles, builds>>
    /\ UNCHANGED <<listVars, metaVars, concatVars>>

InitBuildVars ==
    /\ interp = "running"
    /\ disk = <<>>
    /\ registered = <<>>
    /\ created = <<>>
    /\ args = <<>>
    /\ lastPreset = "copy"
    /\ lastFiles = <<>>
    /\ builds = 0

----------------------------------------------------------------------------
\* FileList

FilePaths == {"x", "y", "z"}

\* datetime.datetime.fromtimestamp(0), and instants before, at and after it.
Epoch == 0
DateTimes == {Epoch - 1, Epoch, Epoch + 1}

FileMetas == [datetime : {None} \cup {Some(d) : d \in DateTimes}]

\* FileList._get_sort_datetime: the sort key of a path.
get_sort_datetime(m, path) ==
    LET dt == m[path].datetime IN
    IF dt = None THEN Epoch ELSE dt[1]

\* The paths _get_sort_datetime warns about, in the order sorted() asks for keys.
RECURSIVE SortWarnings(_, _)
SortWarnings(m, ps) ==
    IF ps = <<>> THEN <<>>
    ELSE (IF m[Head(ps)].datetime = None THEN <<Head(ps)>> ELSE <<>>) \o SortWarnings(m, Tail(ps))

\* sorted(): a stable ascending sort.  Insert x behind every element whose
\* key is not greater.
RECURSIVE InsertStable(_, _, _)
InsertStable(key, s, x) ==
    IF s = <<>> THEN <<x>>
    ELSE IF key[Head(s)] > key[x] THEN <<x>> \o s
    ELSE <<Head(s)>> \o InsertStable(key, Tail(s), x)

RECURSIVE Sorted(_, _)
Sorted(key, s) ==
    IF s = <<>> THEN <<>>
    ELSE InsertStable(key, Sorted(key, SubSeq(s, 1, Len(s) - 1)), s[Len(s)])

\* FileList.add_file: the cache answers for a path it holds, get_meta for a new one.
add_file(path) ==
    /\ Len(paths) < MaxFiles
    /\ \E fm \in FileMetas :
          meta' = IF path \in DOMAIN meta THEN meta ELSE (path :> fm) @@ meta
    /\ paths' = Append(paths, path)
    /\ warnings' = <<>>
    /\ lastOp' = "add_file"

AddFile ==
    /\ \E path \in FilePaths : add_file(path)
    /\ UNCHANGED <<buildVars, metaVars, concatVars>>

sort_by_datetime ==
    /\ paths' = Sorted([p \in DOMAIN meta |-> get_sort_datetime(meta, p)], paths)
    /\ warnings' = SortWarnings(meta, paths)
    /\ lastOp' = "sort_by_datetime"
    /\ UNCHANGED meta

SortByDatetime ==
    /\ sort_by_datetime
    /\ UNCHANGED <<buildVars, metaVars, concatVars>>

InitListVars ==
    /\ paths = <<>>
    /\ meta = <<>>
    /\ warnings = <<>>
    /\ lastOp = "init"

----------------------------------------------------------------------------
\* MediaTools.get_meta

Labels == {"Recorded date", "Tagged date", "Duration", "Frame count"}

\* The text behind ": ": a date in the Recorded format, a date in the Tagged
\* format, a decimal integer, or something else.
DateValues == {1, 2}
IntValues == {0, 1, 2}
ValueTexts ==
    [fmt : {"%Y-%m-%d %H:%M:%S.000", "%Z %Y-%m-%d %H:%M:%S"}, v : DateValues]
        \cup [fmt : {"int"}, v : IntValues]
        \cup [fmt : {"other"}, v : {0}]

\* A report line: what it starts with, whether it holds ": ", and the text behind it.
ReportLines ==
    [label : Labels, sep : BOOLEAN, text : ValueTexts]
        \cup [label : {"Format"}, sep : {TRUE}, text : [fmt : {"other"}, v : {0}]]

Reports == UNION {[1..n -> ReportLines] : n \in 0..MaxReport}

\* datetime.strptime and int: the value, or None where they raise ValueError.
Strptime(text, format) == IF text.fmt = format THEN Some(text.v) ELSE None
ParseInt(text) == IF text.fmt = "int" THEN Some(text.v) ELSE None

\* Python's truth value of a field: None and 0 are false.
Truthy(x) == x # None /\ x # Some(0)

\* The labels whose parse stands inside try/except ValueError.
ExceptValueErrorNowhere(label) == FALSE

ExceptValueError(label) == label = "Duration"

\* line.split(": ", 1)[1] and the parse: the field's new value, or the exception.
ParseField(l, parsed, old) ==
    IF ~l.sep THEN [raised |-> "IndexError", value |-> old]
    ELSE IF parsed # None THEN [raised |-> "", value |-> parsed]
    ELSE IF ExceptValueError(l.label) THEN [raised |-> "", value |-> old]
    ELSE [raised |-> "ValueError", value |-> old]

\* One pass of the loop body over a line: the four ifs in order.
GetMetaLine(i, l) ==
    LET r1 == IF l.label = "Recorded date" /\ ~Truthy(i.datetime)
              THEN ParseField(l, Strptime(l.text, "%Y-%m-%d %H:%M:%S.000"), i.datetime)
              ELSE [raised |-> "", value |-> i.datetime]
        r2 == IF l.label = "Tagged date" /\ ~Truthy(r1.value)
              THEN ParseField(l, Strptime(l.text, "%Z %Y-%m-%d %H:%M:%S"), r1.value)
              ELSE [raised |-> "", value |-> r1.value]
        r3 == IF l.label = "Duration" /\ ~Truthy(i.milliseconds)
              THEN ParseField(l, ParseInt(l.text), i.milliseconds)
              ELSE [raised |-> "", value |-> i.milliseconds]
        r4 == IF l.label = "Frame count" /\ ~Truthy(i.frames)
              THEN ParseField(l, ParseInt(l.text), i.frames)
              ELSE [raised |-> "", value |-> i.frames]
        raised == IF r1.raised # "" THEN r1.raised
                  ELSE IF r2.raised # "" THEN r2.raised
                  ELSE IF r3.raised # "" THEN r3.raised
                  ELSE r4.raised
    IN [raised |-> raised,
        info |-> IF raised # "" THEN [i EXCEPT !.datetime = IF r1.raised # "" THEN i.datetime ELSE r2.value]
                 ELSE [datetime |-> r2.value, milliseconds |-> r3.value, frames |-> r4.value]]

GetMetaStep ==
    /\ mpc = "loop"
    /\ idx <= Len(report)
    /\ LET r == GetMetaLine(info, report[idx]) IN
          /\ info' = r.info
          /\ IF r.raised # ""
             THEN mpc' = r.raised /\ idx' = idx
             ELSE mpc' = "loop" /\ idx' = idx + 1
    /\ UNCHANGED report
    /\ UNCHANGED <<buildVars, listVars, concatVars>>

GetMetaReturn ==
    /\ mpc = "loop"
    /\ idx > Len(report)
    /\ mpc' = "returned"
    /\ UNCHANGED <<report, idx, info>>
    /\ UNCHANGED <<buildVars, listVars, concatVars>>

InitMetaVars ==
    /\ mpc = "loop"
    /\ report = <<>>
    /\ idx = 1
    /\ info = [datetime |-> None, milliseconds |-> None, frames |-> None]

----------------------------------------------------------------------------
\* MediaTools.do_concatenation

\* What readline returns and what the loop's variables hold: None (test before
\* the first read), the empty string, or a line of text, known by whether it
\* starts with "frame=", by the length of line.strip() and by the number of
\* whitespace characters behind that (0: the writer is mid-line, 1: the
\* newline alone, more: blanks before the newline).
FrameLens == {8, 20}
NoneLine == [kind |-> "None", frame |-> FALSE, stripped |-> 0, trail |-> 0]
EmptyLine == [kind |-> "empty", frame |-> FALSE, stripped |-> 0, trail |-> 0]
LogLines ==
    [kind : {"text"}, frame : {TRUE}, stripped : FrameLens, trail : 0..MaxTrail]
        \cup {[kind |-> "text", frame |-> FALSE, stripped |-> 0, trail |-> 1]}

StrLen(l) == l.stripped + l.trail
IsTrue(l) == l.kind = "text"

ExitCodes == 0..MaxCode

\* A log file that cannot be opened for writing but can be read holds what
\* an earlier run left in it.
StaleLogs == {<<>>} \cup {<<l>> : l \in LogLines}

\* util.open_if_exists(logfile_path, "wb"): the file, or None without a path
\* and None for a file that cannot be opened.
OpenIfExists ==
    /\ pc = "start"
    /\ \/ /\ logfile_path # None
          /\ f' = "file"
          /\ pending' = <<>>
       \/ /\ logfile_path # None
          /\ f' = "None"
          /\ UNCHANGED pending
       \/ /\ logfile_path = None
          /\ f' = "None"
          /\ UNCHANGED pending
    /\ pc' = "popen"
    /\ UNCHANGED <<logfile_path, proc, written, line, test, prev_line, console, iter, diagnostics>>
    /\ UNCHANGED <<buildVars, listVars, metaVars>>

\* The inputs of the run: a preset and a list of files.
ConcatInputs == << <<"a">>, <<"d", "\\", "b">> >>

\* logfile_handle, build_ffmpeg_params and subprocess.Popen.
Popen ==
    /\ pc = "popen"
    /\ \E name \in PresetNames : build_ffmpeg_params(name, ConcatInputs)
    /\ proc' = [state |-> "running", status |-> 0, returncode |-> None,
                stdout |-> IF f # "None" THEN "file" ELSE "DEVNULL"]
    /\ pc' = IF logfile_path # None THEN "open" ELSE "wait"
    /\ UNCHANGED <<logfile_path, f, pending, written, line, test, prev_line, console, iter, diagnostics>>
    /\ UNCHANGED <<listVars, metaVars>>

\* open(logfile_path, "r"), test = None, prev_line = "".
OpenLogfileIn ==
    /\ pc = "open"
    /\ \/ /\ f = "file"
          /\ pc' = "poll"
          /\ UNCHANGED pending
       \/ /\ f = "None"
          /\ \E stale \in StaleLogs : pending' = stale
          /\ pc' = "poll"
       \/ /\ f = "None"
          /\ pc' = "OSError"
          /\ UNCHANGED pending
    /\ test' = NoneLine
    /\ prev_line' = EmptyLine
    /\ UNCHANGED <<logfile_path, f, proc, written, line, console, iter, diagnostics>>
    /\ UNCHANGED <<buildVars, listVars, metaVars>>

\* while proc.poll() is None
LoopOnEmptyRead(p, t) == t.kind # "empty"

LoopCondition(p, t) == p.state = "running"

Poll ==
    /\ pc = "poll"
    /\ proc' = IF proc.state = "exited"
               THEN [proc EXCEPT !.returncode = Some(proc.status)]
               ELSE proc
    /\ pc' = IF LoopCondition(proc, test) THEN "body" ELSE "after_loop"
    /\ UNCHANGED <<logfile_path, f, pending, written, line, test, prev_line, console, iter, diagnostics>>
    /\ UNCHANGED <<buildVars, listVars, metaVars>>

\* logfile_in.readline(): the next line of the file, or "" at its end.
Readline(unread) == IF unread = <<>> THEN EmptyLine ELSE Head(unread)

\* The three ifs in front of the print call: nothing new was read, and the line read
\* before is non-empty text that starts with "frame=".
RendersEveryFrameLine(l, t) == IsTrue(l) /\ l.frame

Renders(l, t) == ~IsTrue(t) /\ IsTrue(l) /\ l.frame

\* print(line.strip() + padding, end="\r"): what is written, and how far
\* visible characters reach on the console line afterwards.
Padding(prev, l) ==
    LET line_shortness == StrLen(prev) - StrLen(l) IN
    IF line_shortness > 0 THEN line_shortness ELSE 0

PrintProgress(c, prev, l) ==
    LET w == [content |-> l.stripped, padding |-> Padding(prev, l)] IN
    [last |-> Some(w),
     before |-> c.last,
     screen |-> IF c.screen > w.content + w.padding THEN c.screen ELSE w.content]

\* One pass of the loop body.
Body ==
    /\ pc = "body"
    /\ line' = test
    /\ test' = Readline(pending)
    /\ pending' = IF pending = <<>> THEN pending ELSE Tail(pending)
    /\ IF Renders(line', test')
       THEN /\ console' = PrintProgress(console, prev_line, line')
            /\ prev_line' = line'
            /\ iter' = [ran |-> TRUE, rendered |-> TRUE]
       ELSE /\ iter' = [ran |-> TRUE, rendered |-> FALSE]
            /\ UNCHANGED <<console, prev_line>>
    /\ pc' = "poll"
    /\ UNCHANGED <<logfile_path, f, proc, written, diagnostics>>
    /\ UNCHANGED <<buildVars, listVars, metaVars>>

\* if proc.returncode != 0 ... if proc.returncode == 0
EncodingFailedAboveOne(returncode) == returncode # Some(0) /\ returncode # Some(1)

EncodingFailed(returncode) == returncode # Some(0)

Outcome(returncode, advice) ==
    (IF EncodingFailed(returncode) THEN <<[level |-> "error", msg |-> advice]>> ELSE <<>>)
        \o (IF returncode = Some(0) THEN <<[level |-> "info", msg |-> "Processing done."]>> ELSE <<>>)

\* After the loop: print(), the error of the logging path, the final message.
AfterLoop ==
    /\ pc = "after_loop"
    /\ diagnostics' = diagnostics
           \o Outcome(proc.returncode, "Encoding failed. Check the log file for the error.")
    /\ pc' = "returned"
    /\ UNCHANGED <<logfile_path, f, proc, pending, written, line, test, prev_line, console, iter>>
    /\ UNCHANGED <<buildVars, listVars, metaVars>>

\* Without a log path: proc.wait() returns once the process has exited.
Wait ==
    /\ pc = "wait"
    /\ proc.state = "exited"
    /\ proc' = [proc EXCEPT !.returncode = Some(proc.status)]
    /\ diagnostics' = diagnostics
           \o Outcome(proc'.returncode, "Encoding failed. Re-run with logging to find out what went wrong.")
    /\ pc' = "returned"
    /\ UNCHANGED <<logfile_path, f, pending, written, line, test, prev_line, console, iter>>
    /\ UNCHANGED <<buildVars, listVars, metaVars>>

\* The external process writes a line, or part of one, to its output.
ChildWrite ==
    /\ proc.state = "running"
    /\ \/ /\ proc.stdout = "file"
          /\ written < MaxLog
          /\ written' = written + 1
          /\ \E l \in LogLines : pending' = Append(pending, l)
       \/ /\ proc.stdout = "DEVNULL"
          /\ UNCHANGED <<pending, written>>
    /\ UNCHANGED <<pc, logfile_path, f, proc, line, test, prev_line, console, iter, diagnostics>>
    /\ UNCHANGED <<buildVars, listVars, metaVars>>

ChildExit ==
    /\ proc.state = "running"
    /\ \E c \in ExitCodes : proc' = [proc EXCEPT !.state = "exited", !.status = c]
    /\ UNCHANGED <<pc, logfile_path, f, pending, written, line, test, prev_line, console, iter, diagnostics>>
    /\ UNCHANGED <<buildVars, listVars, metaVars>>

InitConcatVars ==
    /\ pc = "start"
    /\ logfile_path \in {None, Some("ffmpeg.log")}
    /\ f = "None"
    /\ proc = [state |-> "none", status |-> 0, returncode |-> None, stdout |-> "DEVNULL"]
    /\ pending = <<>>
    /\ written = 0
    /\ line = NoneLine
    /\ test = NoneLine
    /\ prev_line = EmptyLine
    /\ console = [last |-> None, before |-> None, screen |-> 0]
    /\ iter = [ran |-> FALSE, rendered |-> FALSE]
    /\ diagnostics = <<>>

IdleConcatVars ==
    /\ pc = "idle"
    /\ logfile_path = None
    /\ f = "None"
    /\ proc = [state |-> "none", status |-> 0, returncode |-> None, stdout |-> "DEVNULL"]
    /\ pending = <<>>
    /\ written = 0
    /\ line = NoneLine
    /\ test = NoneLine
    /\ prev_line = EmptyLine
    /\ console = [last |-> None, before |-> None, screen |-> 0]
    /\ iter = [ran |-> FALSE, rendered |-> FALSE]
    /\ diagnostics = <<>>

----------------------------------------------------------------------------
\* Specifications, one for each part of the program.

\* Preset.build_ffmpeg_params over the life of one interpreter.
InitBuild == InitBuildVars /\ InitListVars /\ InitMetaVars /\ IdleConcatVars
NextBuild == Build \/ InterpreterExit \/ InterpreterKilled
SpecBuild == InitBuild /\ [][NextBuild]_vars

\* A FileList that is filled and sorted.
NextList == AddFile \/ SortByDatetime
SpecList == InitBuild /\ [][NextList]_vars

\* MediaTools.get_meta over every report of the model.
InitMeta ==
    /\ InitBuildVars /\ InitListVars /\ IdleConcatVars
    /\ mpc = "loop"
    /\ report \in Reports
    /\ idx = 1
    /\ info = [datetime |-> None, milliseconds |-> None, frames |-> None]
NextMeta == GetMetaStep \/ GetMetaReturn
SpecMeta == InitMeta /\ [][NextMeta]_vars

\* One run of MediaTools.do_concatenation beside the process it starts.
Init == InitBuildVars /\ InitListVars /\ InitMetaVars /\ InitConcatVars
Caller == OpenIfExists \/ Popen \/ OpenLogfileIn \/ Poll \/ Body \/ AfterLoop \/ Wait
Next == Caller \/ ChildWrite \/ ChildExit
Spec == Init /\ [][Next]_vars
\* The calling thread keeps running: readline and sleep return.  Nothing
\* makes the external process write or exit.
SpecLive == Spec /\ WF_vars(Caller)

----------------------------------------------------------------------------
\* Properties.

Monitoring == {"poll", "body"}
IsFrameLine(l) == IsTrue(l) /\ l.frame
Written(w) == w[1].content + w[1].padding
HasDiagnostic(level) == \E i \in 1..Len(diagnostics) : diagnostics[i].level = level

\* C1 as stated: after every pass of the monitoring loop, if the line read in
\* the pass before starts with "frame=", that line was rendered in this pass,
\* whether this pass read a new line or nothing.
C1_FrameLineAlwaysRendered ==
    (iter.ran /\ IsFrameLine(line)) => iter.rendered

\* C1 amended: a pass of the monitoring loop renders the line read in the pass
\* before exactly when that line starts with "frame=" and this pass read
\* nothing; what it renders is that line stripped, which becomes prev_line.
\* A pass that read a new line renders nothing.
C1_RenderedIffNothingNewRead ==
    iter.ran =>
        /\ iter.rendered <=> (IsFrameLine(line) /\ ~IsTrue(test))
        /\ iter.rendered => /\ console.last # None
                            /\ console.last[1].content = line.stripped
                            /\ prev_line = line
        /\ IsTrue(test) => ~iter.rendered

\* The monitoring loop has rendered a "frame=" line one pass after reading it.
C1_Witness ==
    pc = "poll" /\ iter.ran /\ iter.rendered /\ IsFrameLine(line) /\ test = EmptyLine

C4_SinkFailureNeverFailsRun ==
    (logfile_path # None /\ f = "None") => pc # "OSError"

\* C5: every rendering writes at least as many characters as the rendering
\* before it.
C5_PaddedToPreviousRendering ==
    (console.last # None /\ console.before # None)
        => Written(console.last) >= Written(console.before)

\* C6 as stated: every CONCAT_DEMUX build creates a manifest of its own, and
\* once the interpreter has ended, normally or not, no manifest is left.
C6_NoManifestAfterAnyExit ==
    /\ Cardinality(Range(created)) = Len(created)
    /\ interp \in {"exited", "killed"} => Range(created) \cap DOMAIN disk = {}

\* C6 amended: every CONCAT_DEMUX build creates a manifest of its own, which
\* stays on disk while the interpreter runs, and once the interpreter has
\* exited normally (its atexit handlers have run) no manifest is left.
C6_NoManifestAfterNormalExit ==
    /\ Cardinality(Range(created)) = Len(created)
    /\ interp = "running" => Range(created) = DOMAIN disk
    /\ interp = "exited" => Range(created) \cap DOMAIN disk = {}

\* Two manifests were created and the interpreter has exited normally.
C6_Witness ==
    interp = "exited" /\ Len(created) >= 2

\* C7: after sort_by_datetime every path without a datetime stands before
\* every path with one, and each path without a datetime was warned about once.
C7_UnsetBeforeSet ==
    lastOp = "sort_by_datetime" =>
        /\ \A i, j \in 1..Len(paths) :
              (meta[paths[i]].datetime = None /\ meta[paths[j]].datetime # None) => i < j
        /\ Len(warnings) = Cardinality({i \in 1..Len(paths) : meta[paths[i]].datetime = None})

\* A report line whose value parses under its label; the lines of some labels.
WellFormed(l) ==
    /\ l.sep
    /\ l.label = "Recorded date" => Strptime(l.text, "%Y-%m-%d %H:%M:%S.000") # None
    /\ l.label = "Tagged date" => Strptime(l.text, "%Z %Y-%m-%d %H:%M:%S") # None
    /\ l.label \in {"Duration", "Frame count"} => ParseInt(l.text) # None
LinesOf(labels) == {i \in 1..Len(report) : report[i].label \in labels}
FirstOf(labels) == CHOOSE i \in LinesOf(labels) : \A j \in LinesOf(labels) : i <= j
\* C8: for a report of well-formed lines that holds a Recorded date line and a
\* Tagged date line, in either order, datetime is the value of the first
\* Recorded date line.
C8_RecordedDateWins ==
    (/\ mpc = "returned"
     /\ \A i \in 1..Len(report) : WellFormed(report[i])
     /\ LinesOf({"Recorded date"}) # {}
     /\ LinesOf({"Tagged date"}) # {})
        => info.datetime = Some(report[FirstOf({"Recorded date"})].text.v)

\* C9 as stated: get_meta raises no ValueError, whichever recognized line
\* carries a value that does not parse.
C9_NoValueError ==
    mpc # "ValueError"

\* C9 amended: only a Duration line is tolerated.  A Duration line with a
\* value that is not an integer leaves milliseconds as it was and extraction
\* goes on to return; a ValueError leaves get_meta exactly at a Recorded date,
\* Tagged date or Frame count line whose value does not parse, and get_meta
\* returns only if the first date line and the first Frame count line parse.
C9_OnlyDurationTolerated ==
    /\ mpc = "ValueError" =>
          /\ report[idx].label \in {"Recorded date", "Tagged date", "Frame count"}
          /\ report[idx].sep
          /\ ~WellFormed(report[idx])
    /\ mpc = "IndexError" => (report[idx].label \in Labels /\ ~report[idx].sep)
    /\ mpc = "returned" =>
          /\ \A i \in LinesOf({"Duration"}) :
                ~WellFormed(report[i]) =>
                    \/ info.milliseconds = None
                    \/ \E j \in LinesOf({"Duration"}) : ParseInt(report[j].text) = info.milliseconds
          /\ LinesOf({"Recorded date", "Tagged date"}) # {}
                => WellFormed(report[FirstOf({"Recorded date", "Tagged date"})])
          /\ LinesOf({"Frame count"}) # {} => WellFormed(report[FirstOf({"Frame count"})])
          /\ LinesOf({"Duration"}) # {} => report[FirstOf({"Duration"})].sep

\* get_meta has returned over a Duration line whose value is not an integer.
C9_Witness ==
    /\ mpc = "returned"
    /\ info.milliseconds = None
    /\ \E i \in LinesOf({"Duration"}) : report[i].sep /\ ParseInt(report[i].text) = None

\* str.split: the pieces of a text between the separators.
RECURSIVE SplitAt(_, _, _)
SplitAt(text, sep, acc) ==
    IF text = <<>> THEN <<acc>>
    ELSE IF Head(text) = sep THEN <<acc>> \o SplitAt(Tail(text), sep, <<>>)
    ELSE SplitAt(Tail(text), sep, Append(acc, Head(text)))
\* C10: the arguments of the last build end with the preset's ffmpeg_params,
\* and what stands before them has the shape of the preset's strategy: one -i
\* whose value splits at '|' into the inputs; or one -i for each input in
\* order, then -filter_complex with a graph whose n is the number of inputs;
\* or one -i naming a manifest that holds one directive for each input in order.
C10_PrefixMatchesStrategy ==
    (builds > 0 /\ interp = "running") =>
        LET self == encode_presets[lastPreset]
            n == Len(lastFiles)
            k == Len(args) - Len(self.ffmpeg_params)
            inputFlags == {i \in 1..k : args[i] = <<"-i">>}
        IN  /\ k >= 0
            /\ SubSeq(args, k + 1, Len(args)) = self.ffmpeg_params
            /\ self.concat_strategy = "CONCAT_PROTOCOL" =>
                  /\ k = 2
                  /\ inputFlags = {1}
                  /\ Head(args[2]) = "concat:"
                  /\ n > 0 => SplitAt(Tail(args[2]), "|", <<>>) = lastFiles
                  /\ n = 0 => Tail(args[2]) = <<>>
            /\ self.concat_strategy = "CONCAT_FILTER" =>
                  /\ k = 2 * n + 6
                  /\ inputFlags = {2 * i - 1 : i \in 1..n}
                  /\ \A i \in 1..n : args[2 * i] = lastFiles[i]
                  /\ args[2 * n + 1] = <<"-filter_complex">>
                  /\ args[2 * n + 2][1] = "concat=n="
                  /\ args[2 * n + 2][2] = ToString(n)
            /\ self.concat_strategy = "CONCAT_DEMUX" =>
                  /\ Cardinality(inputFlags) = 1
                  /\ \A i \in inputFlags :
                        /\ i = k - 1
                        /\ \E t \in DOMAIN disk :
                              /\ args[i + 1] = TempPath(t)
                              /\ t = created[Len(created)]
                              /\ Len(disk[t]) = n
                              /\ \A j \in 1..n :
                                    LET d == disk[t][j] IN
                                    /\ Head(d) = "file 'file:"
                                    /\ d[Len(d)] = "'"
                                    /\ Len(d) = Len(lastFiles[j]) + 2
                                    /\ \A c \in 1..Len(lastFiles[j]) :
                                          d[c + 1] = IF lastFiles[j][c] = "\\" THEN "/"
                                                     ELSE lastFiles[j][c]

\* The last build joined two inputs under the filter strategy.
C10_Witness ==
    /\ builds > 0
    /\ interp = "running"
    /\ encode_presets[lastPreset].concat_strategy = "CONCAT_FILTER"
    /\ Len(lastFiles) = 2
    /\ lastFiles[1] # lastFiles[2]

====
